---- MODULE Spec2Model ----
(***************************************************************************)
(* GitHubService (src/src/github_service.rs): a stateless adapter over the *)
(* contents API of one GitHub repository.  Every operation issues one      *)
(* request through the octocrab client, awaits its outcome and maps it to  *)
(* a Result.  The model has three layers:                                  *)
(*   - the remote repository (files, content-addressed blob SHAs) and the  *)
(*     way the contents API answers a request against it;                  *)
(*   - the client outcome of a request: Ok(items), Error::GitHub with the  *)
(*     status code and message, or a transport error;                      *)
(*   - the adapter's operations, each a function of the client outcome.    *)
(* Callers run concurrently; a call is issued in one step and completes    *)
(* in another, when the remote serves its request and the await resumes.   *)
(***************************************************************************)
EXTENDS Integers, Sequences, FiniteSets, TLC

(* ------------------------------ bounds --------------------------------- *)

\* How many distinct file contents callers write.
NumContents == 2

ContentPool == <<"hello", "hello world", "draft", "final", "other">>

Contents == {ContentPool[i] : i \in 1..NumContents}

\* Requests one call may issue before the model stops following it (the
\* operations issue one).
MaxResend == 2

\* Two concurrent callers sharing one adapter instance.
Callers == {"alice", "bob"}

(* ------------------------------ paths ---------------------------------- *)

DirPath == "notes"

FileOrder == <<"notes/a.md">>

FilePaths == {FileOrder[i] : i \in 1..Len(FileOrder)}

Paths == FilePaths \cup {DirPath}

NoFile == "<absent>"

NoSha == "<none>"

(* --------------------------- remote service ---------------------------- *)

\* The content-hash of a file: the git blob SHA, a function of the content.
BlobSha(c) == "sha(" \o c \o ")"

Shas == {BlobSha(c) : c \in Contents}

Item(p, c) == [path |-> p, sha |-> BlobSha(c)]

ContentAt(fs, p) == IF p \in FilePaths THEN fs[p] ELSE NoFile

\* The entries of the directory, in path order.
RECURSIVE Children(_, _)
Children(fs, i) ==
    IF i > Len(FileOrder) THEN <<>>
    ELSE LET rest == Children(fs, i + 1)
         IN  IF fs[FileOrder[i]] = NoFile THEN rest
             ELSE <<Item(FileOrder[i], fs[FileOrder[i]])>> \o rest

Listing(fs, p) ==
    IF p \in FilePaths
    THEN IF fs[p] = NoFile THEN <<>> ELSE <<Item(p, fs[p])>>
    ELSE Children(fs, 1)

PathExists(fs, p) == Listing(fs, p) # <<>>

\* The message GitHub sends with an error status.
StatusMessage(s) ==
    CASE s = 404 -> "Not Found"
      [] s = 409 -> "sha does not match"
      [] s = 422 -> "Invalid request"
      [] s = 403 -> "Forbidden"
      [] OTHER   -> "Server Error"

(* The outcome of `...send().await` in the octocrab client. *)
OkOutcome(items) ==
    [tag |-> "Ok", status_code |-> 200, message |-> "", items |-> items]

GitHubError(s) ==
    [tag |-> "GitHub", status_code |-> s, message |-> StatusMessage(s),
     items |-> <<>>]

HttpError ==
    [tag |-> "Http", status_code |-> 0, message |-> "connection error",
     items |-> <<>>]

NoOutcome == [tag |-> "None", status_code |-> 0, message |-> "", items |-> <<>>]

\* A failing server answers 500 whatever the repository holds.
FaultOutcomes == {GitHubError(500)}

\* GET /repos/{owner}/{repo}/contents/{path}
RemoteGet(fs, p) ==
    IF PathExists(fs, p)
    THEN {[out |-> OkOutcome(Listing(fs, p)), files |-> fs]}
    ELSE {[out |-> GitHubError(404), files |-> fs]}

\* PUT .../contents/{path} without a sha: creates, or 422 when the path is taken.
RemoteCreate(fs, p, c) ==
    IF fs[p] = NoFile
    THEN {[out |-> OkOutcome(<<>>), files |-> [fs EXCEPT ![p] = c]]}
    ELSE {[out |-> GitHubError(422), files |-> fs]}

\* PUT .../contents/{path} with a sha: replaces the blob the sha names.
RemoteUpdate(fs, p, c, sha) ==
    IF fs[p] = NoFile
    THEN {[out |-> GitHubError(s), files |-> fs] : s \in {404, 422}}
    ELSE IF BlobSha(fs[p]) = sha
         THEN {[out |-> OkOutcome(<<>>), files |-> [fs EXCEPT ![p] = c]]}
         ELSE {[out |-> GitHubError(409), files |-> fs]}

\* DELETE .../contents/{path} with a sha.
RemoteDelete(fs, p, sha) ==
    IF fs[p] = NoFile
    THEN {[out |-> GitHubError(404), files |-> fs]}
    ELSE IF BlobSha(fs[p]) = sha
         THEN {[out |-> OkOutcome(<<>>), files |-> [fs EXCEPT ![p] = NoFile]]}
         ELSE {[out |-> GitHubError(409), files |-> fs]}

IsRead(op) == op \in {"get_content_items", "note_exists", "get_sha"}

IsWrite(op) == op \in {"create_file", "update_file", "delete_file"}

\* The contents API dispatches on the verb and on whether a sha is given.
RemoteServe(fs, req) ==
    CASE req.verb = "GET"    -> RemoteGet(fs, req.path)
      [] req.verb = "DELETE" -> RemoteDelete(fs, req.path, req.sha)
      [] req.verb = "PUT" /\ req.sha = NoSha
                             -> RemoteCreate(fs, req.path, req.content)
      [] OTHER               -> RemoteUpdate(fs, req.path, req.content, req.sha)

(* ------------------------------ requests ------------------------------- *)
(* The request each operation builds from its arguments.                   *)

\* repos(owner, repo).get_content().path(path)
get_content_request(path) ==
    [verb |-> "GET", path |-> path, message |-> "", content |-> NoFile,
     sha |-> NoSha]

\* Mutation: the message and the content passed in each other's place.
create_request_swapped(path, message, content) ==
    [verb |-> "PUT", path |-> path, message |-> content, content |-> message,
     sha |-> NoSha]

\* repos(owner, repo).create_file(path, message, content)
create_request(path, message, content) ==
    [verb |-> "PUT", path |-> path, message |-> message, content |-> content,
     sha |-> NoSha]

\* Mutation: the content and the sha passed in each other's place.
update_request_swapped(path, message, content, sha) ==
    [verb |-> "PUT", path |-> path, message |-> message, content |-> sha,
     sha |-> content]

\* repos(owner, repo).update_file(path, message, content, sha)
update_request(path, message, content, sha) ==
    [verb |-> "PUT", path |-> path, message |-> message, content |-> content,
     sha |-> sha]

\* Mutation: the message and the sha passed in each other's place.
delete_request_swapped(path, message, sha) ==
    [verb |-> "DELETE", path |-> path, message |-> sha, content |-> NoFile,
     sha |-> message]

\* repos(owner, repo).delete_file(path, message, sha)
delete_request(path, message, sha) ==
    [verb |-> "DELETE", path |-> path, message |-> message,
     content |-> NoFile, sha |-> sha]

Request(k) ==
    CASE k.op = "create_file" -> create_request(k.path, k.message, k.content)
      [] k.op = "update_file" -> update_request(k.path, k.message, k.content, k.sha)
      [] k.op = "delete_file" -> delete_request(k.path, k.message, k.sha)
      [] OTHER                -> get_content_request(k.path)

(* ------------------------------ errors --------------------------------- *)

OkR(v) == [tag |-> "Ok", value |-> v]

ErrR(e) == [tag |-> "Err", err |-> e]

NoResult == [tag |-> "None"]

Unit == "()"

\* `?` / `.into()` on an octocrab::Error in a function returning
\* anyhow::Result: the client error is kept inside the anyhow::Error.
AnyhowFrom(o) ==
    [type |-> "anyhow", variant |-> o.tag, status_code |-> o.status_code,
     message |-> o.message]

\* `.context("No content found")` on a None.
AnyhowContext(text) ==
    [type |-> "anyhow", variant |-> "Context", status_code |-> 0,
     message |-> text]

\* Display of octocrab::Error: the message of the GitHub error, not its status.
to_string(o) ==
    IF o.tag = "GitHub" THEN "GitHub: " \o o.message ELSE "HTTP Error"

\* impl From<octocrab::Error> for GitHubServiceError
FromOctocrab(o) ==
    [type |-> "GitHubServiceError", variant |-> "Octocrab",
     text |-> to_string(o)]

(* ----------------------------- operations ------------------------------ *)
(* Each maps the outcome of the one request the operation sends.           *)

get_content_items(o) ==
    IF o.tag = "Ok" THEN OkR(o.items) ELSE ErrR(AnyhowFrom(o))

\* Mutation: no arm for 404.
note_exists_404_is_error(o) ==
    IF o.tag = "Ok" THEN OkR(TRUE) ELSE ErrR(AnyhowFrom(o))

note_exists(o) ==
    IF o.tag = "Ok" THEN OkR(TRUE)
    ELSE IF o.tag = "GitHub" /\ o.status_code = 404 THEN OkR(FALSE)
    ELSE ErrR(AnyhowFrom(o))

\* Mutation: the exemption widened to every 4xx status.
create_file_any_client_error(o) ==
    IF o.tag = "Ok" THEN OkR(Unit)
    ELSE IF o.tag = "GitHub" /\ o.status_code \in 400..499 THEN OkR(Unit)
    ELSE ErrR(FromOctocrab(o))

\* Mutation: no arm for 422.
create_file_strict(o) ==
    IF o.tag = "Ok" THEN OkR(Unit) ELSE ErrR(FromOctocrab(o))

\* Mutation: every error taken for the benign race.
create_file_any_error_ok(o) == OkR(Unit)

create_file(o) ==
    IF o.tag = "Ok" THEN OkR(Unit)
    ELSE IF o.tag = "GitHub" /\ o.status_code = 422 THEN OkR(Unit)
    ELSE ErrR(FromOctocrab(o))

\* Mutation: a conflict taken for a benign race, as create_file takes 422.
update_file_swallow_conflict(o) ==
    IF o.tag = "Ok" THEN OkR(Unit)
    ELSE IF o.tag = "GitHub" /\ o.status_code = 409 THEN OkR(Unit)
    ELSE ErrR(AnyhowFrom(o))

update_file(o) ==
    IF o.tag = "Ok" THEN OkR(Unit) ELSE ErrR(AnyhowFrom(o))

delete_file(o) ==
    IF o.tag = "Ok" THEN OkR(Unit) ELSE ErrR(AnyhowFrom(o))

\* Mutation: a 404 of the listing request reported as "No content found".
get_sha_404_not_found(o) ==
    LET content == get_content_items(o)
    IN  IF o.tag = "GitHub" /\ o.status_code = 404
        THEN ErrR(AnyhowContext("No content found"))
        ELSE IF content.tag = "Err" THEN content
        ELSE IF content.value = <<>>
             THEN ErrR(AnyhowContext("No content found"))
             ELSE OkR(Head(content.value).sha)

\* Mutation: the path of the first item returned in place of its sha.
get_sha_path(o) ==
    LET content == get_content_items(o)
    IN  IF content.tag = "Err" THEN content
        ELSE IF content.value = <<>>
             THEN ErrR(AnyhowContext("No content found"))
             ELSE OkR(Head(content.value).path)

get_sha(o) ==
    LET content == get_content_items(o)
    IN  IF content.tag = "Err" THEN content
        ELSE IF content.value = <<>>
             THEN ErrR(AnyhowContext("No content found"))
             ELSE OkR(Head(content.value).sha)

Complete(op, o) ==
    CASE op = "get_content_items" -> get_content_items(o)
      [] op = "note_exists"       -> note_exists(o)
      [] op = "create_file"       -> create_file(o)
      [] op = "update_file"       -> update_file(o)
      [] op = "delete_file"       -> delete_file(o)
      [] op = "get_sha"           -> get_sha(o)

(* ------------------------------- state --------------------------------- *)

VARIABLES
    files,    \* the remote repository: content of each file path, or NoFile
    pc,       \* per caller: "idle", "sent" (awaiting the response), "done"
    call,     \* per caller: the operation awaited and its arguments
    out,      \* per caller: the client outcome of the request
    result,   \* per caller: what the operation returned
    obs,      \* per caller: what the remote held when it served the request
    sent,     \* per caller: requests issued by the current call
    scn       \* the scripted end-to-end session (step 0: no script)

vars == <<files, pc, call, out, result, obs, sent, scn>>

NoCall ==
    [op |-> "none", path |-> DirPath, message |-> "", content |-> NoFile,
     sha |-> NoSha, fetched |-> FALSE, dirty |-> FALSE, rival |-> "none",
     won |-> NoFile]

\* A call: the operation, its arguments, and what happened around it
\* (fetched/dirty: the sha is the one this caller's get_sha returned, and a
\* write to the path was served since; rival: a concurrent update or delete
\* with the same sha succeeded first; won: a concurrent create came first).
MkCall(op, p, m, c, sha) ==
    [op |-> op, path |-> p, message |-> m, content |-> c, sha |-> sha,
     fetched |-> FALSE, dirty |-> FALSE, rival |-> "none", won |-> NoFile]

NoObs == [remote |-> FALSE, pre |-> NoFile, post |-> NoFile, existed |-> FALSE]

NoScenario ==
    [step |-> 0, path |-> DirPath, c1 |-> NoFile, c2 |-> NoFile,
     H |-> NoSha, newH |-> NoSha]

Repositories == [FilePaths -> Contents \cup {NoFile}]

Fresh ==
    /\ pc = [c \in Callers |-> "idle"]
    /\ call = [c \in Callers |-> NoCall]
    /\ out = [c \in Callers |-> NoOutcome]
    /\ result = [c \in Callers |-> NoResult]
    /\ obs = [c \in Callers |-> NoObs]
    /\ sent = [c \in Callers |-> 0]

\* GitHubService::new: the adapter holds no state; the repository it is
\* bound to may hold anything.
Init ==
    /\ files \in Repositories
    /\ Fresh
    /\ scn = NoScenario

(* ------------------------------ actions -------------------------------- *)

\* An operation is called: it builds its request and sends it.
Invoke(c, k) ==
    /\ pc[c] \in {"idle", "done"}
    /\ pc' = [pc EXCEPT ![c] = "sent"]
    /\ call' = [call EXCEPT ![c] = k]
    /\ out' = [out EXCEPT ![c] = NoOutcome]
    /\ result' = [result EXCEPT ![c] = NoResult]
    /\ obs' = [obs EXCEPT ![c] = NoObs]
    /\ sent' = [sent EXCEPT ![c] = 1]
    /\ UNCHANGED files

CallList(c) ==
    /\ scn.step = 0
    /\ \E p \in Paths : Invoke(c, MkCall("get_content_items", p, "", NoFile, NoSha))
    /\ UNCHANGED scn

CallExists(c) ==
    /\ scn.step = 0
    /\ \E p \in Paths : Invoke(c, MkCall("note_exists", p, "", NoFile, NoSha))
    /\ UNCHANGED scn

CallGetSha(c) ==
    /\ scn.step = 0
    /\ \E p \in Paths : Invoke(c, MkCall("get_sha", p, "", NoFile, NoSha))
    /\ UNCHANGED scn

CallCreate(c) ==
    /\ scn.step = 0
    /\ \E p \in FilePaths, x \in Contents :
          Invoke(c, MkCall("create_file", p, "add note", x, NoSha))
    /\ UNCHANGED scn

CallUpdate(c) ==
    /\ scn.step = 0
    /\ \E p \in FilePaths, x \in Contents, h \in Shas :
          Invoke(c, MkCall("update_file", p, "update note", x, h))
    /\ UNCHANGED scn

CallDelete(c) ==
    /\ scn.step = 0
    /\ \E p \in FilePaths, h \in Shas :
          Invoke(c, MkCall("delete_file", p, "remove note", NoFile, h))
    /\ UNCHANGED scn

\* The caller passes the sha its get_sha just returned to update_file.
CallUpdateFetched(c) ==
    /\ scn.step = 0
    /\ pc[c] = "done"
    /\ call[c].op = "get_sha"
    /\ call[c].path \in FilePaths
    /\ result[c].tag = "Ok"
    /\ \E x \in Contents :
          Invoke(c, [MkCall("update_file", call[c].path, "update note", x,
                            result[c].value)
                     EXCEPT !.fetched = TRUE, !.dirty = call[c].dirty])
    /\ UNCHANGED scn

\* The caller passes the sha its get_sha just returned to delete_file.
CallDeleteFetched(c) ==
    /\ scn.step = 0
    /\ pc[c] = "done"
    /\ call[c].op = "get_sha"
    /\ call[c].path \in FilePaths
    /\ result[c].tag = "Ok"
    /\ Invoke(c, [MkCall("delete_file", call[c].path, "remove note", NoFile,
                         result[c].value)
                  EXCEPT !.fetched = TRUE, !.dirty = call[c].dirty])
    /\ UNCHANGED scn

\* What caller d's record notes when the remote applies the write k.
Noted(d, k, fs2) ==
    LET m == call[d]
        holdsSha == \/ m.op = "get_sha" /\ pc[d] = "done"
                    \/ m.fetched /\ pc[d] = "sent"
        waits == pc[d] = "sent"
    IN  IF m.path # k.path \/ m.op = "none" THEN m
        ELSE [m EXCEPT
                !.dirty = IF holdsSha THEN TRUE ELSE @,
                !.rival = IF waits /\ m.op \in {"update_file", "delete_file"}
                          THEN IF k.op \in {"update_file", "delete_file"}
                                  /\ k.sha = m.sha
                               THEN IF fs2[k.path] # NoFile
                                       /\ BlobSha(fs2[k.path]) = m.sha
                                    THEN "unchanged" ELSE "changed"
                               ELSE "none"
                          ELSE @,
                !.won = IF waits /\ m.op = "create_file"
                        THEN IF k.op = "create_file" THEN k.content ELSE NoFile
                        ELSE @]

\* No operation loops around its send(): an outcome is never answered by
\* sending the request again.
Resend(op, o) == FALSE

\* The await of caller c resumes with outcome o, and the operation maps it
\* to its Result.
Resume(c, o) ==
    /\ out' = [out EXCEPT ![c] = o]
    /\ IF Resend(call[c].op, o)
       THEN /\ pc' = pc
            /\ sent' = [sent EXCEPT ![c] = @ + 1]
            /\ result' = result
       ELSE /\ pc' = [pc EXCEPT ![c] = "done"]
            /\ result' = [result EXCEPT ![c] = Complete(call[c].op, o)]
            /\ sent' = sent

\* The remote service processes the request of caller c and answers it.
Serve(c) ==
    /\ pc[c] = "sent"
    /\ sent[c] <= MaxResend
    /\ \E r \in RemoteServe(files, Request(call[c])) :
          /\ files' = r.files
          /\ Resume(c, r.out)
          /\ obs' = [obs EXCEPT ![c] =
                        [remote |-> TRUE,
                         pre |-> ContentAt(files, call[c].path),
                         post |-> ContentAt(r.files, call[c].path),
                         existed |-> PathExists(files, call[c].path)]]
          /\ call' = [d \in Callers |->
                        IF d # c /\ IsWrite(call[c].op) /\ r.out.tag = "Ok"
                        THEN Noted(d, call[c], r.files) ELSE call[d]]
    /\ UNCHANGED scn

\* The server fails the request without touching the repository.
Fault(c) ==
    /\ pc[c] = "sent"
    /\ sent[c] <= MaxResend
    /\ \E o \in FaultOutcomes : Resume(c, o)
    /\ obs' = [obs EXCEPT ![c] =
                  [remote |-> FALSE,
                   pre |-> ContentAt(files, call[c].path),
                   post |-> ContentAt(files, call[c].path),
                   existed |-> PathExists(files, call[c].path)]]
    /\ UNCHANGED <<files, call, scn>>

Next ==
    \E c \in Callers :
        \/ CallList(c)
        \/ CallExists(c)
        \/ CallGetSha(c)
        \/ CallCreate(c)
        \/ CallUpdate(c)
        \/ CallDelete(c)
        \/ CallUpdateFetched(c)
        \/ CallDeleteFetched(c)
        \/ Serve(c)
        \/ Fault(c)

Spec == Init /\ [][Next]_vars

(* ------------------- the adapter against any outcome ------------------- *)
(* The operations are functions of the client outcome.  Here the request   *)
(* of a call is answered by any outcome the client can deliver, whatever   *)
(* the repository holds.                                                   *)

Statuses == {403, 404, 409, 422, 500, 502}

Listings ==
    {<<>>}
    \cup {<<Item(p, x)>> : p \in FilePaths, x \in Contents}
    \cup {<<Item("notes/a.md", x), Item("notes/b.md", y)>> :
             x \in Contents, y \in Contents}

ClientOutcomes ==
    {OkOutcome(l) : l \in Listings}
    \cup {GitHubError(s) : s \in Statuses}
    \cup {HttpError}

Deliver(c) ==
    /\ pc[c] = "sent"
    /\ sent[c] <= MaxResend
    /\ \E o \in ClientOutcomes : Resume(c, o)
    /\ obs' = [obs EXCEPT ![c] =
                  [remote |-> FALSE,
                   pre |-> ContentAt(files, call[c].path),
                   post |-> ContentAt(files, call[c].path),
                   existed |-> PathExists(files, call[c].path)]]
    /\ UNCHANGED <<files, call, scn>>

\* One caller is enough here: the outcome does not depend on the repository.
AnyResponseNext ==
    \E c \in {"alice"} :
        \/ CallList(c)
        \/ CallExists(c)
        \/ CallGetSha(c)
        \/ CallCreate(c)
        \/ CallUpdate(c)
        \/ CallDelete(c)
        \/ Deliver(c)

AnyResponseSpec == Init /\ [][AnyResponseNext]_vars

(* ----------------------- the end-to-end session ------------------------ *)
(* One caller runs the session of the specification's end-to-end scenario  *)
(* and is the only writer; the other caller only reads.                    *)

Writer == "alice"

Reader == "bob"

LastStep == 8

\* The call of each step: create, exists, get_sha (H), update with H,
\* get_sha (newH), delete with the old H, delete with newH, exists.
StepCall(n, sc) ==
    CASE n = 1 -> MkCall("create_file", sc.path, "add note", sc.c1, NoSha)
      [] n = 2 -> MkCall("note_exists", sc.path, "", NoFile, NoSha)
      [] n = 3 -> MkCall("get_sha", sc.path, "", NoFile, NoSha)
      [] n = 4 -> MkCall("update_file", sc.path, "update note", sc.c2, sc.H)
      [] n = 5 -> MkCall("get_sha", sc.path, "", NoFile, NoSha)
      [] n = 6 -> MkCall("delete_file", sc.path, "remove note", NoFile, sc.H)
      [] n = 7 -> MkCall("delete_file", sc.path, "remove note", NoFile, sc.newH)
      [] OTHER -> MkCall("note_exists", sc.path, "", NoFile, NoSha)

\* The delete with the old hash is a step the session may skip.
StepsAfter(n) == IF n = 5 THEN {6, 7} ELSE {n + 1}

ScenarioInit ==
    /\ Fresh
    /\ \E p \in FilePaths, x \in Contents, y \in Contents :
          /\ x # y
          /\ scn = [step |-> 1, path |-> p, c1 |-> x, c2 |-> y,
                    H |-> NoSha, newH |-> NoSha]
          /\ files \in {fs \in Repositories : fs[p] = NoFile}

ScriptStart ==
    /\ scn.step = 1
    /\ pc[Writer] = "idle"
    /\ Invoke(Writer, StepCall(1, scn))
    /\ UNCHANGED scn

\* The session goes on once a step has returned: the step that is expected
\* to fail whatever it returned, the others when they returned Ok.
ScriptStep ==
    /\ scn.step \in 1..(LastStep - 1)
    /\ pc[Writer] = "done"
    /\ scn.step # 6 => result[Writer].tag = "Ok"
    /\ \E n \in StepsAfter(scn.step) :
          LET sc == [scn EXCEPT
                       !.step = n,
                       !.H = IF scn.step = 3 THEN result[Writer].value ELSE @,
                       !.newH = IF scn.step = 5 THEN result[Writer].value ELSE @]
          IN  /\ scn' = sc
              /\ Invoke(Writer, StepCall(n, sc))

ReaderCall ==
    /\ scn.step > 0
    /\ \E op \in {"get_content_items", "note_exists", "get_sha"}, p \in Paths :
          Invoke(Reader, MkCall(op, p, "", NoFile, NoSha))
    /\ UNCHANGED scn

ScenarioNext ==
    \/ ScriptStart
    \/ ScriptStep
    \/ ReaderCall
    \/ \E c \in Callers : Serve(c)
    \/ \E c \in Callers : Fault(c)

ScenarioSpec == ScenarioInit /\ [][ScenarioNext]_vars

(* ------------------------------ properties ----------------------------- *)

Done(c) == pc[c] = "done"

\* The request of c's call reached the repository and was answered by it.
Answered(c) == Done(c) /\ obs[c].remote

\* The result is the client's GitHub error itself, with its status code.
IsApiError(r, s) ==
    /\ r.tag = "Err"
    /\ r.err.type = "anyhow"
    /\ r.err.variant = "GitHub"
    /\ r.err.status_code = s

\* The result is the error of `.context("No content found")`.
IsNotFound(r) ==
    /\ r.tag = "Err"
    /\ r.err.type = "anyhow"
    /\ r.err.variant = "Context"

\* The two outcomes an operation turns into a success.
Converted(op, o) ==
    /\ o.tag = "GitHub"
    /\ \/ op = "note_exists" /\ o.status_code = 404
       \/ op = "create_file" /\ o.status_code = 422

\* C1: note_exists returns Ok(false) when the remote answers 404 for an
\* absent path and Ok(true) when the path exists; the boolean is the
\* existence of the path when the request was served.
C1_FileExists ==
    \A c \in Callers :
        (Answered(c) /\ call[c].op = "note_exists") =>
            /\ result[c].tag = "Ok"
            /\ result[c].value = obs[c].existed
            /\ (out[c].status_code = 404) <=> ~obs[c].existed

C1_Witness ==
    \E c, d \in Callers :
        /\ Answered(c) /\ call[c].op = "note_exists"
        /\ out[c].status_code = 404 /\ result[c] = OkR(FALSE)
        /\ Answered(d) /\ call[d].op = "note_exists"
        /\ result[d] = OkR(TRUE)

C3_CreateAbsent ==
    \A c \in Callers :
        (Answered(c) /\ call[c].op = "create_file" /\ obs[c].pre = NoFile) =>
            /\ result[c] = OkR(Unit)
            /\ obs[c].post = call[c].content

C3_Witness ==
    \E c \in Callers :
        /\ Answered(c) /\ call[c].op = "create_file" /\ obs[c].pre = NoFile
        /\ result[c] = OkR(Unit)
        /\ files[call[c].path] = call[c].content

\* C4: create_file on a path that holds a file is answered 422, returns Ok
\* and leaves the file as it was, whatever content was given.
C4_CreateExisting ==
    \A c \in Callers :
        (Answered(c) /\ call[c].op = "create_file" /\ obs[c].pre # NoFile) =>
            /\ out[c].status_code = 422
            /\ result[c] = OkR(Unit)
            /\ obs[c].post = obs[c].pre

C4_Witness ==
    \E c \in Callers :
        /\ Answered(c) /\ call[c].op = "create_file"
        /\ obs[c].pre # NoFile /\ obs[c].pre # call[c].content
        /\ result[c] = OkR(Unit)
        /\ files[call[c].path] = obs[c].pre

\* C5: when create_file returns Ok, by 422 too, a file exists at the path
\* when the response is produced; of concurrent creators of an absent path
\* each one answered returns Ok, one file is created and it keeps the
\* content of the creator served first.
C5_CreateRace ==
    \A c \in Callers :
        (Done(c) /\ call[c].op = "create_file") =>
            /\ result[c].tag = "Ok" => obs[c].post # NoFile
            /\ (obs[c].remote /\ call[c].won # NoFile) =>
                   /\ out[c].status_code = 422
                   /\ result[c] = OkR(Unit)
                   /\ obs[c].pre = call[c].won
                   /\ obs[c].post = call[c].won

C5_Witness ==
    \E c, d \in Callers :
        /\ c # d
        /\ Answered(c) /\ call[c].op = "create_file"
        /\ call[c].won # NoFile /\ call[c].won # call[c].content
        /\ result[c] = OkR(Unit)
        /\ Answered(d) /\ call[d].op = "create_file"
        /\ obs[d].pre = NoFile /\ result[d] = OkR(Unit)
        /\ call[d].path = call[c].path /\ call[d].content = call[c].won

\* C6: update_file returns Ok and replaces the content exactly when the sha
\* given is the current hash of the file; otherwise it returns the remote's
\* error, the file is unchanged, and no second request is sent.
C6_UpdateHash ==
    \A c \in Callers :
        (Answered(c) /\ call[c].op = "update_file") =>
            /\ sent[c] = 1
            /\ IF obs[c].pre # NoFile /\ BlobSha(obs[c].pre) = call[c].sha
               THEN /\ result[c] = OkR(Unit)
                    /\ obs[c].post = call[c].content
               ELSE /\ \E s \in {404, 409, 422} : IsApiError(result[c], s)
                    /\ obs[c].post = obs[c].pre

C6_Witness ==
    \E c, d \in Callers :
        /\ Answered(c) /\ call[c].op = "update_file"
        /\ obs[c].pre # NoFile /\ BlobSha(obs[c].pre) # call[c].sha
        /\ IsApiError(result[c], 409)
        /\ Answered(d) /\ call[d].op = "update_file"
        /\ result[d] = OkR(Unit) /\ obs[d].post # obs[d].pre

\* C7 as stated: get_sha returns the not-found error, not the remote's
\* error, when the path has no content: on a 404 and on an empty listing.
C7_Original ==
    \A c \in Callers :
        (Done(c) /\ call[c].op = "get_sha"
           /\ \/ out[c].tag = "GitHub" /\ out[c].status_code = 404
              \/ out[c].tag = "Ok" /\ out[c].items = <<>>) =>
            IsNotFound(result[c])

\* C7 amended: get_sha returns the not-found error exactly when the listing
\* request succeeds with an empty listing; an error response, 404 included,
\* is returned as the remote's error with its status code.
C7_GetShaNotFound ==
    \A c \in Callers :
        (Done(c) /\ call[c].op = "get_sha") =>
            /\ IsNotFound(result[c]) <=> (out[c].tag = "Ok" /\ out[c].items = <<>>)
            /\ out[c].tag = "GitHub" => IsApiError(result[c], out[c].status_code)

C7_Witness ==
    \E c \in Callers :
        /\ Done(c) /\ call[c].op = "get_sha"
        /\ out[c].tag = "Ok" /\ out[c].items = <<>>
        /\ IsNotFound(result[c])

\* C8: get_sha of an existing file returns its current hash: update_file
\* and delete_file called with it succeed when no write to the path was
\* served in between.
C8_FetchedHash ==
    \A c \in Callers :
        /\ (Answered(c) /\ call[c].op = "get_sha" /\ call[c].path \in FilePaths
              /\ result[c].tag = "Ok" /\ ~call[c].dirty) =>
               /\ files[call[c].path] # NoFile
               /\ result[c].value = BlobSha(files[call[c].path])
        /\ (Answered(c) /\ call[c].fetched /\ ~call[c].dirty) =>
               /\ out[c].tag = "Ok"
               /\ result[c] = OkR(Unit)

C8_Witness ==
    \E c, d \in Callers :
        /\ Answered(c) /\ call[c].fetched /\ ~call[c].dirty
        /\ call[c].op = "update_file" /\ result[c] = OkR(Unit)
        /\ Answered(d) /\ call[d].fetched /\ ~call[d].dirty
        /\ call[d].op = "delete_file" /\ result[d] = OkR(Unit)

\* C9: in the end-to-end session every step answered by the repository
\* ends as the scenario says: create Ok, exists true, get_sha H, update
\* with H Ok, a new hash other than H, delete with H an error, delete with
\* the new hash Ok, exists false.
C9_Scenario ==
    LET r == result[Writer]
        n == scn.step
    IN  (scn.step > 0 /\ Answered(Writer)) =>
            /\ n = 1 => r = OkR(Unit) /\ obs[Writer].post = scn.c1
            /\ n = 2 => r.tag = "Ok" /\ r.value = TRUE
            /\ n = 3 => r.tag = "Ok" /\ r.value = BlobSha(scn.c1)
            /\ n = 4 => r = OkR(Unit) /\ obs[Writer].post = scn.c2
            /\ n = 5 => r.tag = "Ok" /\ r.value # scn.H
                                     /\ r.value = BlobSha(scn.c2)
            /\ n = 6 => IsApiError(r, 409) /\ obs[Writer].post = scn.c2
            /\ n = 7 => r = OkR(Unit) /\ obs[Writer].post = NoFile
            /\ n = 8 => r.tag = "Ok" /\ r.value = FALSE

C9_Witness ==
    /\ scn.step = LastStep
    /\ Answered(Writer)
    /\ result[Writer].tag = "Ok" /\ result[Writer].value = FALSE
    /\ scn.path = "notes/a.md" /\ scn.c1 = "hello" /\ scn.c2 = "hello world"
    /\ scn.H = BlobSha("hello") /\ scn.newH = BlobSha("hello world")

\* C10 as stated: of two concurrent update_file or delete_file calls on one
\* path with the same sha, the one served second fails and changes nothing.
C10_Original ==
    \A c \in Callers :
        (Answered(c) /\ call[c].rival # "none") =>
            /\ result[c].tag = "Err"
            /\ obs[c].post = obs[c].pre

\* C10 amended: the call served second fails with the remote's error and
\* changes nothing when the first changed the hash of the file (a delete,
\* or an update to a content with another hash); an update that writes the
\* content the file already has leaves the hash as it is, and the second
\* call succeeds after it.
C10_NoLostUpdate ==
    \A c \in Callers :
        /\ (Answered(c) /\ call[c].rival = "changed") =>
               /\ \E s \in {404, 409, 422} : IsApiError(result[c], s)
               /\ obs[c].post = obs[c].pre
               /\ sent[c] = 1
        /\ (Answered(c) /\ call[c].rival = "unchanged") =>
               /\ obs[c].pre # NoFile
               /\ BlobSha(obs[c].pre) = call[c].sha

C10_Witness ==
    \E c, d \in Callers :
        /\ c # d
        /\ Answered(c) /\ call[c].rival = "changed"
        /\ IsApiError(result[c], 409)
        /\ Answered(d) /\ call[d].op \in {"update_file", "delete_file"}
        /\ call[d].path = call[c].path /\ call[d].sha = call[c].sha
        /\ result[d] = OkR(Unit)

====
